---- MODULE Spec2Model ----
(***************************************************************************)
(* Ledger handlers of src/server.js: POST /api/transaction and             *)
(* POST /api/transfer, run as concurrent async handlers against the        *)
(* accounts collection (users) and the transactions collection (ledger).   *)
(*                                                                         *)
(* A handler advances one awaited database call at a time; the synchronous *)
(* code between two awaits belongs to the step of the call before it.      *)
(*                                                                         *)
(* The store is MongoDB behind mongoose, as the handlers use it:           *)
(*  - a query issued without a session (User.findById, User.findOne) reads *)
(*    the committed collection, whatever transactions are open;            *)
(*  - doc.save({ session }) of a loaded document sends                     *)
(*    updateOne({_id}, {$set: {balance}}) inside the session's transaction *)
(*    when the balance differs from the loaded one, and only an existence  *)
(*    query when it does not;                                              *)
(*  - the transaction's snapshot is taken by its first operation; an update*)
(*    of a document that another open transaction has written, or that was *)
(*    committed after the snapshot, fails with WriteConflict;              *)
(*  - commitTransaction publishes all writes of the transaction at once,   *)
(*    abortTransaction drops them; a commit that fails publishes nothing;  *)
(*  - the driver refuses abortTransaction after commitTransaction was      *)
(*    called, also when that commit failed.                                *)
(***************************************************************************)
EXTENDS Integers, Sequences, FiniteSets, TLC

\* Two handler invocations, each serving one request of either kind, run
\* concurrently: the races the handlers can have are races of two requests.
Reqs == {"r1", "r2"}

\* Stored accounts, and an id that matches no account.
Ids == {"u1", "u2"}
UnknownId == "u0"

NameOf == [i \in Ids |-> IF i = "u1" THEN "ann" ELSE "bob"]
EmailOf == [i \in Ids |-> IF i = "u1" THEN "ann@x" ELSE "bob@x"]
NumberOf == [i \in Ids |-> IF i = "u1" THEN "1000000001" ELSE "1000000002"]

\* Request inputs: req.body is not validated, so amount may be <= 0 and type
\* may be any string.
MaxAmount == 2
Amounts == -1..MaxAmount
Types == {"deposit", "withdraw", "bonus"}

VARIABLES
    users,      \* accounts collection, committed: id -> [name, email, password,
                \* accountNumber, balance]
    ledger,     \* transactions collection, committed, in the order written
    pc,         \* per request: the awaited call the handler is at
    body,       \* per request: req.body
    user,       \* per request: the document of line 139
    sender,     \* per request: the document of line 179
    recipient,  \* per request: the document of line 180
    session,    \* per request: the driver's transaction state
    txn,        \* per request: the server's open transaction (uncommitted writes)
    res,        \* per request: the response sent (status 0: none yet)
    error,      \* per request: message of the error thrown inside try
    calls,      \* per request: the calls made on its session, in order
    json        \* per request: the list sent by GET /api/transactions/:userId

vars == <<users, ledger, pc, body, user, sender, recipient, session, txn, res, error,
          calls, json>>

----------------------------------------------------------------------------
\* Documents and records

\* What a query that matches nothing returns (null).
NoDoc == [found |-> FALSE, id |-> UnknownId, name |-> "", balance |-> 0, orig |-> 0]

\* A document loaded from the accounts collection; orig is the balance as
\* loaded, by which mongoose decides whether save() has anything to write.
Load(i) == [found |-> TRUE, id |-> i, name |-> users[i].name,
            balance |-> users[i].balance, orig |-> users[i].balance]

\* User.findById(id), no session: the committed document, or null.
FindById(i) == IF i \in Ids THEN Load(i) ELSE NoDoc

\* (mutant) the query matches an account on either field.
FindOneMatchesEither(number, name) ==
    {i \in Ids : users[i].accountNumber = number \/ users[i].name = name}

\* User.findOne({accountNumber, name}), no session: a committed document
\* matching both fields, or null.
FindOneMatches(number, name) ==
    {i \in Ids : users[i].accountNumber = number /\ users[i].name = name}

FindOne(number, name) ==
    IF FindOneMatches(number, name) = {} THEN NoDoc
    ELSE Load(CHOOSE i \in FindOneMatches(number, name) : TRUE)

\* new Transaction({...}) of the transactionSchema; date is the schema's
\* default, Date.now() as the record is constructed.
Transaction(userId, type, amount, balance, recipientId, recipientName, senderId, senderName, date) ==
    [userId |-> userId, type |-> type, amount |-> amount, balance |-> balance,
     recipientId |-> recipientId, recipientName |-> recipientName,
     senderId |-> senderId, senderName |-> senderName, date |-> date]

NoBody == [op |-> "", userId |-> UnknownId, type |-> "", amount |-> 0,
           senderId |-> UnknownId, recipientAccountNumber |-> "", recipientName |-> ""]

TransactionBodies ==
    {[op |-> "transaction", userId |-> u, type |-> t, amount |-> a,
      senderId |-> UnknownId, recipientAccountNumber |-> "", recipientName |-> ""] :
        u \in Ids \cup {UnknownId}, t \in Types, a \in Amounts}

TransferBodies ==
    {[op |-> "transfer", userId |-> UnknownId, type |-> "", amount |-> a,
      senderId |-> s, recipientAccountNumber |-> NumberOf[n], recipientName |-> NameOf[m]] :
        s \in Ids \cup {UnknownId}, n \in Ids, m \in Ids, a \in Amounts}

----------------------------------------------------------------------------
\* The server's side of a session's transaction

NoTxn == [snap |-> FALSE, stale |-> {}, wset |-> {},
          wbal |-> [i \in Ids |-> 0], inserts |-> <<>>]

\* An update of document i by request r's transaction meets a write conflict.
WriteConflict(r, i) ==
    \/ i \in txn[r].stale
    \/ \E q \in Reqs \ {r} : i \in txn[q].wset

TxUpdate(t, i, balance) ==
    [t EXCEPT !.snap = TRUE, !.wset = @ \cup {i}, !.wbal[i] = balance]

TxRead(t) == [t EXCEPT !.snap = TRUE]

TxInsert(t, record) == [t EXCEPT !.snap = TRUE, !.inserts = Append(@, record)]

\* The committed collections after request r's transaction commits.
CommittedUsers(r) ==
    [i \in Ids |-> IF i \in txn[r].wset
                   THEN [users[i] EXCEPT !.balance = txn[r].wbal[i]]
                   ELSE users[i]]

\* (mutant) one record kept per account: a committed record replaces the
\* records its owner had.
CommittedLedgerLatestOnly(r) ==
    SelectSeq(ledger, LAMBDA t :
        \A k \in 1..Len(txn[r].inserts) : txn[r].inserts[k].userId # t.userId)
    \o txn[r].inserts

CommittedLedger(r) == ledger \o txn[r].inserts

\* The open transactions after r's ends: committed writes make the documents
\* stale for every transaction whose snapshot is older.
TxnAfterEnd(r, written) ==
    [q \in Reqs |-> IF q = r THEN NoTxn
                    ELSE IF txn[q].snap THEN [txn[q] EXCEPT !.stale = @ \cup written]
                    ELSE txn[q]]

----------------------------------------------------------------------------
\* The accounts as the model starts: u1 has deposited 2 (one ledger record),
\* u2 is as sign-up left it.
InitialBalance == [i \in Ids |-> IF i = "u1" THEN 2 ELSE 0]

Init ==
    /\ users = [i \in Ids |-> [name |-> NameOf[i], email |-> EmailOf[i],
                               password |-> "hash", accountNumber |-> NumberOf[i],
                               balance |-> InitialBalance[i]]]
    /\ ledger = <<Transaction("u1", "deposit", 2, 2, "null", "", "null", "", 0)>>
    /\ pc = [r \in Reqs |-> "idle"]
    /\ body = [r \in Reqs |-> NoBody]
    /\ user = [r \in Reqs |-> NoDoc]
    /\ sender = [r \in Reqs |-> NoDoc]
    /\ recipient = [r \in Reqs |-> NoDoc]
    /\ session = [r \in Reqs |-> "none"]
    /\ txn = [r \in Reqs |-> NoTxn]
    /\ res = [r \in Reqs |-> [status |-> 0, message |-> ""]]
    /\ error = [r \in Reqs |-> ""]
    /\ calls = [r \in Reqs |-> <<>>]
    /\ json = [r \in Reqs |-> <<>>]

----------------------------------------------------------------------------
\* Date.now(), in milliseconds counted from the first record: the clock never
\* runs backwards, so a record constructed now is dated no earlier than any
\* record constructed before it, and possibly the same millisecond.
RECURSIVE LatestOf(_)
LatestOf(records) ==
    IF records = <<>> THEN 0
    ELSE LET rest == LatestOf(Tail(records))
         IN  IF Head(records).date > rest THEN Head(records).date ELSE rest

RECURSIVE LatestPending(_)
LatestPending(S) ==
    IF S = {} THEN 0
    ELSE LET r == CHOOSE q \in S : TRUE
             rest == LatestPending(S \ {r})
             mine == LatestOf(txn[r].inserts)
         IN  IF mine > rest THEN mine ELSE rest

LatestDate ==
    IF LatestOf(ledger) > LatestPending(Reqs) THEN LatestOf(ledger) ELSE LatestPending(Reqs)

DateNow == {LatestDate, LatestDate + 1}

\* Date.now() in the statement after one that read the clock as d.
DateNowAfter(d) == {d, d + 1}

----------------------------------------------------------------------------
\* Steps shared by the two handlers

\* The error thrown inside try: control goes to the catch block, whose first
\* statement is the awaited session.abortTransaction().
Throw(r, message) ==
    /\ error' = [error EXCEPT ![r] = message]
    /\ pc' = [pc EXCEPT ![r] = "abort"]

\* doc.save({ session }) for a loaded document, then on to the call `next`.
\* Any operation sent with the session moves the driver to in_progress.
Save(r, doc, next) ==
    /\ session' = [session EXCEPT ![r] = "in_progress"]
    /\ IF doc.balance = doc.orig
         THEN /\ txn' = [txn EXCEPT ![r] = TxRead(@)]
              /\ pc' = [pc EXCEPT ![r] = next]
              /\ UNCHANGED error
         ELSE IF WriteConflict(r, doc.id)
         THEN /\ txn' = TxnAfterEnd(r, {})
              /\ Throw(r, "WriteConflict")
         ELSE /\ txn' = [txn EXCEPT ![r] = TxUpdate(@, doc.id, doc.balance)]
              /\ pc' = [pc EXCEPT ![r] = next]
              /\ UNCHANGED error
    /\ UNCHANGED <<users, ledger, body, user, sender, recipient, res, calls, json>>

\* record.save({ session }) of a new record, then on to the call `next`.
Insert(r, record, next) ==
    /\ session' = [session EXCEPT ![r] = "in_progress"]
    /\ txn' = [txn EXCEPT ![r] = TxInsert(@, record)]
    /\ pc' = [pc EXCEPT ![r] = next]
    /\ UNCHANGED <<users, ledger, body, user, sender, recipient, res, error, calls, json>>

\* await session.commitTransaction() succeeds; the response is sent and the
\* finally block calls endSession().
Commit(r) ==
    /\ users' = CommittedUsers(r)
    /\ ledger' = CommittedLedger(r)
    /\ txn' = TxnAfterEnd(r, txn[r].wset)
    /\ session' = [session EXCEPT ![r] = "committed"]
    /\ res' = [res EXCEPT ![r] = [status |-> 200, message |-> ""]]
    /\ pc' = [pc EXCEPT ![r] = "done"]
    /\ calls' = [calls EXCEPT ![r] = @ \o <<"commitTransaction", "endSession">>]
    /\ UNCHANGED <<body, user, sender, recipient, error, json>>

\* await session.commitTransaction() rejects: nothing is published, and the
\* driver has already recorded the transaction as committed.
CommitFails(r) ==
    /\ txn' = TxnAfterEnd(r, {})
    /\ session' = [session EXCEPT ![r] = "committed"]
    /\ Throw(r, "commit failed")
    /\ calls' = [calls EXCEPT ![r] = Append(@, "commitTransaction")]
    /\ UNCHANGED <<users, ledger, body, user, sender, recipient, res, json>>

\* The catch and finally blocks. abortTransaction() throws when the driver's
\* state is committed: the error leaves the handler and no response is sent.
\* Otherwise the transaction's writes are dropped and 400 is answered. Either
\* way the finally block then calls endSession().
Abort(r) ==
    /\ pc' = [pc EXCEPT ![r] = "done"]
    /\ IF session[r] = "committed"
         THEN UNCHANGED <<session, txn, res>>
         ELSE /\ session' = [session EXCEPT ![r] = "aborted"]
              /\ txn' = TxnAfterEnd(r, {})
              /\ res' = [res EXCEPT ![r] = [status |-> 400, message |-> error[r]]]
    /\ calls' = [calls EXCEPT ![r] = @ \o <<"abortTransaction", "endSession">>]
    /\ UNCHANGED <<users, ledger, body, user, sender, recipient, error, json>>

\* An awaited query or save rejects for a reason of the store's own; the
\* error's message names the call that rejected.
Reject(r, inSession) ==
    /\ session' = [session EXCEPT ![r] = IF inSession THEN "in_progress" ELSE @]
    /\ Throw(r, pc[r])
    /\ UNCHANGED <<users, ledger, body, user, sender, recipient, txn, res, calls, json>>

----------------------------------------------------------------------------
\* POST /api/transaction

\* mongoose.startSession() and session.startTransaction(), then req.body.
BeginTransaction(r) ==
    /\ pc[r] = "idle"
    /\ \E b \in TransactionBodies : body' = [body EXCEPT ![r] = b]
    /\ session' = [session EXCEPT ![r] = "starting"]
    /\ pc' = [pc EXCEPT ![r] = "findUser"]
    /\ calls' = [calls EXCEPT ![r] = <<"startTransaction">>]
    /\ UNCHANGED <<users, ledger, user, sender, recipient, txn, res, error, json>>

\* (mutant) the comparison of line 145 off by one.
InsufficientBalanceOffByOne(type, balance, amount) ==
    type = "withdraw" /\ balance + 1 < amount

\* Line 145.
InsufficientBalance(type, balance, amount) == type = "withdraw" /\ balance < amount

\* Line 150: what is added to user.balance.
Delta(type, amount) == IF type = "deposit" THEN amount ELSE -amount

\* The checks of lines 141-147: the message thrown, "" when none is.
TransactionError(u, type, amount) ==
    IF ~u.found THEN "User not found"
    ELSE IF InsufficientBalance(type, u.balance, amount) THEN "Insufficient balance"
    ELSE ""

\* await User.findById(userId), the checks, and the balance update of line 150.
FindUser(r) ==
    /\ pc[r] = "findUser"
    /\ LET u == FindById(body[r].userId)
           message == TransactionError(u, body[r].type, body[r].amount)
       IN  IF message = ""
             THEN /\ user' = [user EXCEPT ![r] =
                          [u EXCEPT !.balance = @ + Delta(body[r].type, body[r].amount)]]
                  /\ pc' = [pc EXCEPT ![r] = "saveUser"]
                  /\ UNCHANGED error
             ELSE /\ user' = [user EXCEPT ![r] = u]
                  /\ Throw(r, message)
    /\ UNCHANGED <<users, ledger, body, sender, recipient, session, txn, res, calls, json>>

\* (mutant) user.save() without the session: the update is committed at once.
SaveUserNoSession(r) ==
    /\ pc[r] = "saveUser"
    /\ users' = [users EXCEPT ![user[r].id].balance = user[r].balance]
    /\ pc' = [pc EXCEPT ![r] = "saveTransaction"]
    /\ UNCHANGED <<ledger, body, user, sender, recipient, session, txn, res, error, calls, json>>

\* await user.save({ session }).
SaveUser(r) ==
    /\ pc[r] = "saveUser"
    /\ Save(r, user[r], "saveTransaction")

\* The record of lines 154-159.
TransactionRecord(r, date) ==
    Transaction(body[r].userId, body[r].type, body[r].amount, user[r].balance,
                "null", "", "null", "", date)

\* await transaction.save({ session }).
SaveTransaction(r) ==
    /\ pc[r] = "saveTransaction"
    /\ \E d \in DateNow : Insert(r, TransactionRecord(r, d), "commitTransaction")

\* await session.commitTransaction(); res.json({ user, transaction }).
CommitTransaction(r) ==
    /\ pc[r] = "commitTransaction"
    /\ Commit(r)

CommitTransactionFails(r) ==
    /\ pc[r] = "commitTransaction"
    /\ CommitFails(r)

\* One of the awaited calls of lines 139-160 rejects.
TransactionRejects(r) ==
    /\ pc[r] \in {"findUser", "saveUser", "saveTransaction"}
    /\ Reject(r, pc[r] # "findUser")

\* Lines 164-169.
AbortTransaction(r) ==
    /\ pc[r] = "abort"
    /\ body[r].op = "transaction"
    /\ Abort(r)

----------------------------------------------------------------------------
\* POST /api/transfer

\* mongoose.startSession() and session.startTransaction(), then req.body.
BeginTransfer(r) ==
    /\ pc[r] = "idle"
    /\ \E b \in TransferBodies : body' = [body EXCEPT ![r] = b]
    /\ session' = [session EXCEPT ![r] = "starting"]
    /\ pc' = [pc EXCEPT ![r] = "findSender"]
    /\ calls' = [calls EXCEPT ![r] = <<"startTransaction">>]
    /\ UNCHANGED <<users, ledger, user, sender, recipient, txn, res, error, json>>

\* await User.findById(senderId).
FindSender(r) ==
    /\ pc[r] = "findSender"
    /\ sender' = [sender EXCEPT ![r] = FindById(body[r].senderId)]
    /\ pc' = [pc EXCEPT ![r] = "findRecipient"]
    /\ UNCHANGED <<users, ledger, body, user, recipient, session, txn, res, error, calls, json>>

\* The checks of lines 185-191: the message thrown, "" when none is.
TransferError(s, t, amount) ==
    IF ~s.found \/ ~t.found THEN "Invalid sender or recipient"
    ELSE IF s.balance < amount THEN "Insufficient balance"
    ELSE ""

\* await User.findOne({ accountNumber, name }), the checks, and the balance
\* updates of lines 194-195 on the two loaded documents.
FindRecipient(r) ==
    /\ pc[r] = "findRecipient"
    /\ LET t == FindOne(body[r].recipientAccountNumber, body[r].recipientName)
           message == TransferError(sender[r], t, body[r].amount)
       IN  IF message = ""
             THEN /\ sender' = [sender EXCEPT ![r].balance = @ - body[r].amount]
                  /\ recipient' = [recipient EXCEPT ![r] =
                          [t EXCEPT !.balance = @ + body[r].amount]]
                  /\ pc' = [pc EXCEPT ![r] = "saveSender"]
                  /\ UNCHANGED error
             ELSE /\ recipient' = [recipient EXCEPT ![r] = t]
                  /\ Throw(r, message)
                  /\ UNCHANGED sender
    /\ UNCHANGED <<users, ledger, body, user, session, txn, res, calls, json>>

\* (mutant) sender.save() without the session: the debit is committed at once.
SaveSenderNoSession(r) ==
    /\ pc[r] = "saveSender"
    /\ users' = [users EXCEPT ![sender[r].id].balance = sender[r].balance]
    /\ pc' = [pc EXCEPT ![r] = "saveRecipient"]
    /\ UNCHANGED <<ledger, body, user, sender, recipient, session, txn, res, error, calls, json>>

\* await sender.save({ session }).
SaveSender(r) ==
    /\ pc[r] = "saveSender"
    /\ Save(r, sender[r], "saveRecipient")

\* await recipient.save({ session }).
SaveRecipient(r) ==
    /\ pc[r] = "saveRecipient"
    /\ Save(r, recipient[r], "saveSenderTransaction")

\* The record of lines 201-208.
SenderTransaction(r, date) ==
    Transaction(sender[r].id, "transfer_sent", body[r].amount, sender[r].balance,
                recipient[r].id, recipient[r].name, "null", "", date)

\* The record of lines 210-217.
RecipientTransaction(r, date) ==
    Transaction(recipient[r].id, "transfer_received", body[r].amount, recipient[r].balance,
                "null", "", sender[r].id, sender[r].name, date)

\* The date of senderTransaction, constructed one statement before
\* recipientTransaction and saved before it.
SenderTransactionDate(r) == txn[r].inserts[Len(txn[r].inserts)].date

\* await senderTransaction.save({ session }).
SaveSenderTransaction(r) ==
    /\ pc[r] = "saveSenderTransaction"
    /\ \E d \in DateNow : Insert(r, SenderTransaction(r, d), "saveRecipientTransaction")

\* (mutant) recipientTransaction.save() without the session: the record is
\* committed at once.
SaveRecipientTransactionNoSession(r) ==
    /\ pc[r] = "saveRecipientTransaction"
    /\ \E d \in DateNowAfter(SenderTransactionDate(r)) :
          ledger' = Append(ledger, RecipientTransaction(r, d))
    /\ pc' = [pc EXCEPT ![r] = "commitTransfer"]
    /\ UNCHANGED <<users, body, user, sender, recipient, session, txn, res, error, calls, json>>

\* await recipientTransaction.save({ session }).
SaveRecipientTransaction(r) ==
    /\ pc[r] = "saveRecipientTransaction"
    /\ \E d \in DateNowAfter(SenderTransactionDate(r)) :
          Insert(r, RecipientTransaction(r, d), "commitTransfer")

\* await session.commitTransaction(); res.json({ sender, senderTransaction }).
CommitTransfer(r) ==
    /\ pc[r] = "commitTransfer"
    /\ Commit(r)

CommitTransferFails(r) ==
    /\ pc[r] = "commitTransfer"
    /\ CommitFails(r)

\* One of the awaited calls of lines 179-220 rejects.
TransferRejects(r) ==
    /\ pc[r] \in {"findSender", "findRecipient", "saveSender", "saveRecipient",
                  "saveSenderTransaction", "saveRecipientTransaction"}
    /\ Reject(r, pc[r] \notin {"findSender", "findRecipient"})

\* Lines 224-229.
AbortTransfer(r) ==
    /\ pc[r] = "abort"
    /\ body[r].op = "transfer"
    /\ Abort(r)

\* await mongoose.startSession() rejects (lines 134 and 173, before try): the
\* error leaves the handler, nothing is read or written, no response is sent.
StartSessionRejects(r) ==
    /\ pc[r] = "idle"
    /\ pc' = [pc EXCEPT ![r] = "done"]
    /\ error' = [error EXCEPT ![r] = "startSession failed"]
    /\ UNCHANGED <<users, ledger, body, user, sender, recipient, session, txn, res, calls, json>>

----------------------------------------------------------------------------
\* GET /api/transactions/:userId

ListBodies ==
    {[op |-> "transactions", userId |-> u, type |-> "", amount |-> 0,
      senderId |-> UnknownId, recipientAccountNumber |-> "", recipientName |-> ""] :
        u \in Ids \cup {UnknownId}}

\* Transaction.find({ userId }), no session: the committed records of the
\* account, in stored order.
FindTransactions(userId) == SelectSeq(ledger, LAMBDA t : t.userId = userId)

\* (mutant) the key of .sort() with the sign flipped: oldest first.
RECURSIVE InsertByDateAscending(_, _)
InsertByDateAscending(t, sorted) ==
    IF sorted = <<>> THEN <<t>>
    ELSE IF Head(sorted).date <= t.date
      THEN <<Head(sorted)>> \o InsertByDateAscending(t, Tail(sorted))
      ELSE <<t>> \o sorted

\* One record put into a list that is sorted by { date: -1 }, after the
\* records of its own date.
RECURSIVE InsertByDate(_, _)
InsertByDate(t, sorted) ==
    IF sorted = <<>> THEN <<t>>
    ELSE IF Head(sorted).date >= t.date
      THEN <<Head(sorted)>> \o InsertByDate(t, Tail(sorted))
      ELSE <<t>> \o sorted

\* .sort({ date: -1 }).
RECURSIVE SortByDate(_)
SortByDate(records) ==
    IF records = <<>> THEN <<>>
    ELSE InsertByDate(records[Len(records)], SortByDate(SubSeq(records, 1, Len(records) - 1)))

\* The query of lines 234-235 answers; res.json(transactions).
ListTransactions(r) ==
    /\ pc[r] = "idle"
    /\ \E b \in ListBodies :
          /\ body' = [body EXCEPT ![r] = b]
          /\ json' = [json EXCEPT ![r] = SortByDate(FindTransactions(b.userId))]
    /\ res' = [res EXCEPT ![r] = [status |-> 200, message |-> ""]]
    /\ pc' = [pc EXCEPT ![r] = "done"]
    /\ UNCHANGED <<users, ledger, user, sender, recipient, session, txn, error, calls>>

\* The query rejects: lines 237-238 answer 500.
ListTransactionsRejects(r) ==
    /\ pc[r] = "idle"
    /\ \E b \in ListBodies : body' = [body EXCEPT ![r] = b]
    /\ error' = [error EXCEPT ![r] = "find"]
    /\ res' = [res EXCEPT ![r] = [status |-> 500, message |-> "find"]]
    /\ pc' = [pc EXCEPT ![r] = "done"]
    /\ UNCHANGED <<users, ledger, user, sender, recipient, session, txn, calls, json>>

----------------------------------------------------------------------------
Next ==
    \E r \in Reqs :
        \/ StartSessionRejects(r)
        \/ BeginTransaction(r)
        \/ FindUser(r)
        \/ SaveUser(r)
        \/ SaveTransaction(r)
        \/ CommitTransaction(r)
        \/ CommitTransactionFails(r)
        \/ TransactionRejects(r)
        \/ AbortTransaction(r)
        \/ BeginTransfer(r)
        \/ FindSender(r)
        \/ FindRecipient(r)
        \/ SaveSender(r)
        \/ SaveRecipient(r)
        \/ SaveSenderTransaction(r)
        \/ SaveRecipientTransaction(r)
        \/ CommitTransfer(r)
        \/ CommitTransferFails(r)
        \/ TransferRejects(r)
        \/ AbortTransfer(r)
        \/ ListTransactions(r)
        \/ ListTransactionsRejects(r)

Spec == Init /\ [][Next]_vars

----------------------------------------------------------------------------
\* Account provisioning: POST /api/signup and POST /api/generate-account,
\* run by the same two handler invocations against the accounts collection.
\* Neither uses a session: each awaited call acts on the committed collection.

\* _id values, assigned to new documents in this order.
AccountIds == <<"u1", "u2", "u3">>

Emails == {"ann@x", "bob@x", "cat@x"}

\* The values Math.floor(Math.random() * 9000000000) + 1000000000 is drawn
\* from, as strings (lines 103 and 107).
AccountNumbers == {"1000000001", "1000000002"}

\* bcrypt's random salts.
Salts == {"s1", "s2"}

SignupBodies ==
    {[op |-> "signup", name |-> n, email |-> e, password |-> "pw"] :
        n \in {"ann", "bob"}, e \in Emails}

GenerateBodies ==
    {[op |-> "generate-account", userId |-> AccountIds[k]] : k \in 1..Len(AccountIds)}
    \cup {[op |-> "generate-account", userId |-> UnknownId]}

\* bcrypt.hash(password, 10): a one-way value of the password and a fresh salt.
BcryptHash(password, salt) == [bcrypt |-> password, salt |-> salt, rounds |-> 10]

\* User.findOne({ email }): the ids of the matching documents.
FindByEmail(email) == {i \in DOMAIN users : users[i].email = email}

\* (mutant) the schema without unique: true on email.
DuplicateKeyNever(email) == FALSE

\* The unique index of line 24 refuses a second document with the email.
DuplicateKey(email) == FindByEmail(email) # {}

\* The _id of the next document.
NewId == AccountIds[Cardinality(DOMAIN users) + 1]

\* The collection with document d stored under id i.
Stored(i, d) == [j \in DOMAIN users \cup {i} |-> IF j = i THEN d ELSE users[j]]

\* One account exists, with an account number and a deposit of 2.
InitProvision ==
    /\ users = [i \in {"u1"} |-> [name |-> NameOf[i], email |-> EmailOf[i],
                                  password |-> BcryptHash("pw", "s1"),
                                  accountNumber |-> NumberOf[i],
                                  balance |-> InitialBalance[i]]]
    /\ ledger = <<Transaction("u1", "deposit", 2, 2, "null", "", "null", "", 0)>>
    /\ pc = [r \in Reqs |-> "idle"]
    /\ body = [r \in Reqs |-> NoBody]
    /\ user = [r \in Reqs |-> NoDoc]
    /\ sender = [r \in Reqs |-> NoDoc]
    /\ recipient = [r \in Reqs |-> NoDoc]
    /\ session = [r \in Reqs |-> "none"]
    /\ txn = [r \in Reqs |-> NoTxn]
    /\ res = [r \in Reqs |-> [status |-> 0, message |-> ""]]
    /\ error = [r \in Reqs |-> ""]
    /\ calls = [r \in Reqs |-> <<>>]
    /\ json = [r \in Reqs |-> <<>>]

\* res.status(status).json({ message }): the handler is done.
Respond(r, status, message) ==
    /\ res' = [res EXCEPT ![r] = [status |-> status, message |-> message]]
    /\ pc' = [pc EXCEPT ![r] = "done"]

\* Line 45.
BeginSignup(r) ==
    /\ pc[r] = "idle"
    /\ \E b \in SignupBodies : body' = [body EXCEPT ![r] = b]
    /\ pc' = [pc EXCEPT ![r] = "findExistingUser"]
    /\ UNCHANGED <<users, ledger, user, sender, recipient, session, txn, res, error,
                   calls, json>>

\* Lines 48-51: await User.findOne({ email }); 400 when a document matches.
FindExistingUser(r) ==
    /\ pc[r] = "findExistingUser"
    /\ IF FindByEmail(body[r].email) # {}
         THEN Respond(r, 400, "Email already registered")
         ELSE /\ pc' = [pc EXCEPT ![r] = "hash"]
              /\ UNCHANGED res
    /\ UNCHANGED <<users, ledger, body, user, sender, recipient, session, txn, error,
                   calls, json>>

\* Lines 54-63: await bcrypt.hash(password, 10), then new User({...}).
HashPassword(r) ==
    /\ pc[r] = "hash"
    /\ \E salt \in Salts :
          user' = [user EXCEPT ![r] =
                      [name |-> body[r].name, email |-> body[r].email,
                       password |-> BcryptHash(body[r].password, salt),
                       accountNumber |-> "", balance |-> 0]]
    /\ pc' = [pc EXCEPT ![r] = "saveNewUser"]
    /\ UNCHANGED <<users, ledger, body, sender, recipient, session, txn, res, error,
                   calls, json>>

\* Lines 65-69: await user.save(); 201, or 500 when the unique index refuses
\* the document.
SaveNewUser(r) ==
    /\ pc[r] = "saveNewUser"
    /\ IF DuplicateKey(user[r].email)
         THEN /\ error' = [error EXCEPT ![r] = "E11000 duplicate key"]
              /\ Respond(r, 500, "Error creating user")
              /\ UNCHANGED users
         ELSE /\ users' = Stored(NewId, user[r])
              /\ Respond(r, 201, "User created successfully")
              /\ UNCHANGED error
    /\ UNCHANGED <<ledger, body, user, sender, recipient, session, txn, calls, json>>

\* One of the awaited calls of lines 48-65 rejects: lines 67-69 answer 500.
SignupRejects(r) ==
    /\ pc[r] \in {"findExistingUser", "hash", "saveNewUser"}
    /\ error' = [error EXCEPT ![r] = pc[r]]
    /\ Respond(r, 500, "Error creating user")
    /\ UNCHANGED <<users, ledger, body, user, sender, recipient, session, txn, calls, json>>

\* Lines 102-114: a random number, await User.findByIdAndUpdate(userId,
\* { accountNumber }, { new: true }), then user.accountNumber of the result:
\* a TypeError, answered 500, when no document has the id.
GenerateAccount(r) ==
    /\ pc[r] = "idle"
    /\ \E b \in GenerateBodies, number \in AccountNumbers :
          /\ body' = [body EXCEPT ![r] = b]
          /\ IF b.userId \in DOMAIN users
               THEN /\ users' = [users EXCEPT ![b.userId].accountNumber = number]
                    /\ Respond(r, 200, number)
                    /\ UNCHANGED error
               ELSE /\ error' = [error EXCEPT ![r] = "TypeError"]
                    /\ Respond(r, 500, "Error generating account number")
                    /\ UNCHANGED users
    /\ UNCHANGED <<ledger, user, sender, recipient, session, txn, calls, json>>

\* The update rejects: lines 112-114 answer 500.
GenerateAccountRejects(r) ==
    /\ pc[r] = "idle"
    /\ \E b \in GenerateBodies : body' = [body EXCEPT ![r] = b]
    /\ error' = [error EXCEPT ![r] = "findByIdAndUpdate"]
    /\ Respond(r, 500, "Error generating account number")
    /\ UNCHANGED <<users, ledger, user, sender, recipient, session, txn, calls, json>>

NextProvision ==
    \E r \in Reqs :
        \/ BeginSignup(r)
        \/ FindExistingUser(r)
        \/ HashPassword(r)
        \/ SaveNewUser(r)
        \/ SignupRejects(r)
        \/ GenerateAccount(r)
        \/ GenerateAccountRejects(r)

SpecProvision == InitProvision /\ [][NextProvision]_vars

----------------------------------------------------------------------------
\* Vocabulary of the properties

Settled == \A r \in Reqs : pc[r] \in {"idle", "done"}

Succeeded(r) == pc[r] = "done" /\ res[r].status = 200

\* Request r takes a step.
Steps(r) == pc'[r] # pc[r]

\* The step in which request r's commit succeeds.
Commits(r) == pc[r] \in {"commitTransaction", "commitTransfer"} /\ res'[r].status = 200

IsTransaction(r) == body[r].op = "transaction"
IsTransfer(r) == body[r].op = "transfer"

RECURSIVE Sum(_, _)
Sum(f, S) == IF S = {} THEN 0
             ELSE LET x == CHOOSE y \in S : TRUE IN f[x] + Sum(f, S \ {x})

\* The indices of the ledger records account i owns.
Owned(i) == {k \in 1..Len(ledger) : ledger[k].userId = i}

Max(S) == CHOOSE k \in S : \A j \in S : j <= k

\* What request r is meant to add to account i's balance.
Effect(r, i) ==
    IF IsTransaction(r)
      THEN IF body[r].userId # i THEN 0
           ELSE IF body[r].type = "deposit" THEN body[r].amount ELSE -body[r].amount
      ELSE (IF recipient[r].id = i THEN body[r].amount ELSE 0)
           - (IF sender[r].id = i THEN body[r].amount ELSE 0)

----------------------------------------------------------------------------
\* C1: two concurrent withdrawals, each of the account's full balance
\* (balance > 0), never both succeed.
C1_AtMostOneFullWithdrawalSucceeds ==
    \A r, q \in Reqs :
        (/\ r # q
         /\ IsTransaction(r) /\ IsTransaction(q)
         /\ body[r].type = "withdraw" /\ body[q].type = "withdraw"
         /\ body[r].userId \in Ids /\ body[q].userId = body[r].userId
         /\ InitialBalance[body[r].userId] > 0
         /\ body[r].amount = InitialBalance[body[r].userId]
         /\ body[q].amount = InitialBalance[body[r].userId])
        => ~(Succeeded(r) /\ Succeeded(q))

\* C2: when all requests are deposits, withdrawals and transfers between two
\* different accounts, of positive amounts, and all have committed, every
\* balance is the initial balance plus the committed credits minus the
\* committed debits: no update is lost.
C2_NoUpdateIsLost ==
    (\A r \in Reqs :
        /\ Succeeded(r)
        /\ body[r].amount > 0
        /\ IsTransaction(r) => body[r].type \in {"deposit", "withdraw"}
        /\ IsTransfer(r) => sender[r].id # recipient[r].id)
    => \A i \in Ids :
        users[i].balance = InitialBalance[i] + Sum([r \in Reqs |-> Effect(r, i)], Reqs)

\* C3: a transfer of a positive amount that succeeds takes the amount from
\* the sender's balance, adds it to the recipient's and adds two records; a
\* step of a transfer that is not its successful commit changes no balance
\* and adds no record.
C3_TransferMovesAmountOrNothing ==
    [][\A r \in Reqs :
        (IsTransfer(r) /\ body[r].amount > 0 /\ Steps(r)) =>
            IF Commits(r)
              THEN /\ users'[sender[r].id].balance =
                          users[sender[r].id].balance - body[r].amount
                   /\ users'[recipient[r].id].balance =
                          users[recipient[r].id].balance + body[r].amount
                   /\ Len(ledger') = Len(ledger) + 2
              ELSE UNCHANGED <<users, ledger>>]_vars

\* C4: no stored balance is ever negative.
C4_BalanceNeverNegative == \A i \in Ids : users[i].balance >= 0

\* C5: with no operation in flight, the balance of an account that owns a
\* ledger record is the balance field of its most recently written record.
C5_BalanceIsLastRecordBalance ==
    Settled => \A i \in Ids :
        Owned(i) # {} => users[i].balance = ledger[Max(Owned(i))].balance

\* C6: a withdrawal whose amount exceeds the balance read by line 139 throws
\* "Insufficient balance" without writing anything, and is answered 400 with
\* the balance and the ledger unchanged.
C6_OverdrawnWithdrawalFails ==
    [][\A r \in Reqs :
        (IsTransaction(r) /\ body[r].type = "withdraw") =>
            /\ (pc[r] = "findUser" /\ user'[r].found /\ body[r].amount > user'[r].orig)
                => /\ pc'[r] = "abort"
                   /\ error'[r] = "Insufficient balance"
                   /\ user'[r].balance = user'[r].orig
                   /\ UNCHANGED <<users, ledger, txn>>
            /\ (pc[r] = "abort" /\ error[r] = "Insufficient balance" /\ Steps(r))
                => /\ pc'[r] = "done"
                   /\ res'[r] = [status |-> 400, message |-> "Insufficient balance"]
                   /\ txn'[r] = NoTxn
                   /\ UNCHANGED <<users, ledger>>]_vars

C6_Witness ==
    \E r \in Reqs :
        /\ IsTransaction(r) /\ body[r].type = "withdraw"
        /\ pc[r] = "done"
        /\ user[r].found /\ body[r].amount > user[r].orig
        /\ res[r] = [status |-> 400, message |-> "Insufficient balance"]

\* The committed transfer_sent records of s to t over amount a, and the
\* transfer_received records of t from s over amount a.
SentRecords(s, t, a) ==
    {k \in 1..Len(ledger) :
        /\ ledger[k].type = "transfer_sent" /\ ledger[k].userId = s
        /\ ledger[k].recipientId = t /\ ledger[k].amount = a}

ReceivedRecords(s, t, a) ==
    {k \in 1..Len(ledger) :
        /\ ledger[k].type = "transfer_received" /\ ledger[k].userId = t
        /\ ledger[k].senderId = s /\ ledger[k].amount = a}

C8_TransferIsPublishedAtOnce ==
    [][\A r \in Reqs :
        (IsTransfer(r) /\ Steps(r)) =>
            IF Commits(r)
              THEN /\ \E d \in 0..LatestDate : \E e \in DateNowAfter(d) :
                        ledger' = ledger \o <<SenderTransaction(r, d), RecipientTransaction(r, e)>>
                   /\ body[r].amount # 0 =>
                        /\ users'[recipient[r].id].balance = recipient[r].balance
                        /\ sender[r].id # recipient[r].id =>
                             users'[sender[r].id].balance = sender[r].balance
              ELSE UNCHANGED <<users, ledger>>]_vars

\* The debit, the credit and both records are written and not yet committed.
C8_Witness ==
    \E r \in Reqs :
        /\ IsTransfer(r) /\ pc[r] = "commitTransfer"
        /\ body[r].amount > 0 /\ sender[r].id # recipient[r].id
        /\ txn[r].wset = {sender[r].id, recipient[r].id}
        /\ Len(txn[r].inserts) = 2
        /\ users[sender[r].id].balance = sender[r].orig
        /\ users[recipient[r].id].balance = recipient[r].orig
        /\ sender[r].balance # sender[r].orig

\* C9: every step of a /api/transaction request other than its successful
\* commit leaves the committed balances and ledger unchanged, and a request
\* that ends without having committed has dropped its writes and has not
\* answered 200.
C9_FailedTransactionRollsBack ==
    [][\A r \in Reqs :
        (IsTransaction(r) /\ Steps(r) /\ ~Commits(r)) =>
            /\ UNCHANGED <<users, ledger>>
            /\ pc'[r] = "done" => (txn'[r] = NoTxn /\ res'[r].status # 200)]_vars

\* The balance save succeeded, the record save failed, 400 was answered and
\* the stored balance is the one the request read.
C9_Witness ==
    \E r \in Reqs :
        /\ IsTransaction(r) /\ pc[r] = "done"
        /\ res[r] = [status |-> 400, message |-> "saveTransaction"]
        /\ user[r].balance # user[r].orig
        /\ users[user[r].id].balance = user[r].orig
        /\ \A q \in Reqs \ {r} : pc[q] = "idle"

\* C10: a transfer whose sender id matches no account, or whose account
\* number and name are not both those of one account, or whose sender's
\* balance is below the amount, throws without writing anything and is
\* answered 400 with the balances and the ledger unchanged.
C10_RejectedTransferChangesNothing ==
    [][\A r \in Reqs :
        IsTransfer(r) =>
            /\ (/\ pc[r] = "findRecipient" /\ pc'[r] # pc[r] /\ error'[r] # "findRecipient"
                /\ \/ body[r].senderId \notin Ids
                   \/ ~\E i \in Ids :
                         /\ users[i].accountNumber = body[r].recipientAccountNumber
                         /\ users[i].name = body[r].recipientName
                   \/ sender[r].balance < body[r].amount)
                => /\ pc'[r] = "abort"
                   /\ error'[r] \in {"Invalid sender or recipient", "Insufficient balance"}
                   /\ UNCHANGED <<users, ledger, txn>>
            /\ (/\ pc[r] = "abort" /\ Steps(r)
                /\ error[r] \in {"Invalid sender or recipient", "Insufficient balance"})
                => /\ pc'[r] = "done"
                   /\ res'[r] = [status |-> 400, message |-> error[r]]
                   /\ txn'[r] = NoTxn
                   /\ UNCHANGED <<users, ledger>>]_vars

\* One transfer named an account number and a name of two different accounts,
\* another asked for more than its sender had; both were answered 400.
C10_Witness ==
    \E r \in Reqs, q \in Reqs :
        /\ IsTransfer(r) /\ pc[r] = "done" /\ res[r].status = 400
        /\ sender[r].found /\ ~recipient[r].found
        /\ \E i \in Ids, j \in Ids :
              /\ i # j
              /\ users[i].accountNumber = body[r].recipientAccountNumber
              /\ users[j].name = body[r].recipientName
        /\ IsTransfer(q) /\ pc[q] = "done" /\ res[q].status = 400
        /\ sender[q].found /\ recipient[q].found /\ sender[q].balance < body[q].amount
        /\ res[q].message = "Insufficient balance"

----------------------------------------------------------------------------
\* The records of the step's commit that account i owns.
NewlyOwned(i) == {k \in (Len(ledger) + 1)..Len(ledger') : ledger'[k].userId = i}

\* C11: a committed operation of a positive amount adds exactly one record
\* for each account whose balance it changed and none for any other account.
C11_OneRecordPerBalanceChange ==
    [][\A r \in Reqs :
        (Commits(r) /\ body[r].amount > 0) =>
            \A i \in Ids :
                Cardinality(NewlyOwned(i)) =
                    IF users'[i].balance # users[i].balance THEN 1 ELSE 0]_vars

\* How many elements of the sequence equal x.
Count(x, records) == Cardinality({k \in 1..Len(records) : records[k] = x})

Range(records) == {records[k] : k \in 1..Len(records)}

\* Request r is answered by the list handler in this step.
Lists(r) ==
    /\ pc[r] = "idle" /\ pc'[r] = "done"
    /\ body'[r].op = "transactions" /\ res'[r].status = 200

\* C14: the list answered for an account holds exactly the committed records
\* that account owns, each as often as the ledger holds it, with dates that
\* never increase along the list, and answering changes no account, no
\* committed record and no open transaction.
C14_ListIsOwnedCommittedNewestFirst ==
    [][\A r \in Reqs :
        Lists(r) =>
            /\ \A x \in Range(json'[r]) : x.userId = body'[r].userId
            /\ \A x \in Range(ledger) :
                  x.userId = body'[r].userId => Count(x, json'[r]) = Count(x, ledger)
            /\ \A x \in Range(json'[r]) : Count(x, json'[r]) = Count(x, ledger)
            /\ \A k \in 1..(Len(json'[r]) - 1) : json'[r][k].date >= json'[r][k + 1].date
            /\ UNCHANGED <<users, ledger, txn>>]_vars

\* A list of two records whose order is not the stored one, from a ledger
\* that also holds a record of the other account.
C14_Witness ==
    \E r \in Reqs :
        /\ body[r].op = "transactions" /\ pc[r] = "done" /\ res[r].status = 200
        /\ Len(json[r]) = 2
        /\ json[r][1].date > json[r][2].date
        /\ json[r] # FindTransactions(body[r].userId)
        /\ \E k \in 1..Len(ledger) : ledger[k].userId # body[r].userId

\* C15: the ledger is append-only: every step keeps every committed record,
\* with all its fields, where it was.
C15_LedgerIsAppendOnly ==
    [][/\ Len(ledger') >= Len(ledger)
       /\ \A k \in 1..Len(ledger) : ledger'[k] = ledger[k]]_vars

\* Two commits have added records behind the first one.
C15_Witness ==
    /\ Len(ledger) >= 3
    /\ \A r \in Reqs : Succeeded(r) /\ body[r].op \in {"transaction", "transfer"}
    /\ \E i \in Ids : Cardinality(Owned(i)) >= 2

\* C16: a request whose handler has ended has been answered.
C16_EveryRequestIsAnswered ==
    \A r \in Reqs : pc[r] = "done" => res[r].status # 0

Kinds == {"deposit", "withdraw", "transfer_sent", "transfer_received"}

\* C17: every ledger record's kind is one of the four kinds, and a step of a
\* /api/transaction request whose type is neither deposit nor withdraw
\* changes no balance and adds no record.
C17_OnlyKnownKinds ==
    /\ [](\A k \in 1..Len(ledger) : ledger[k].type \in Kinds)
    /\ [][\A r \in Reqs :
            (IsTransaction(r) /\ body[r].type \notin {"deposit", "withdraw"} /\ Steps(r))
                => UNCHANGED <<users, ledger>>]_vars

TotalBalance(u) == Sum([i \in Ids |-> u[i].balance], Ids)

\* C18: the commit of a transfer of a positive amount leaves the sum of all
\* balances unchanged, whoever the resolved recipient is.
C18_TransferKeepsTotal ==
    [][\A r \in Reqs :
        (Commits(r) /\ IsTransfer(r) /\ body[r].amount > 0)
            => TotalBalance(users') = TotalBalance(users)]_vars

\* What a record adds to its owner's balance.
Signed(t) == IF t.type \in {"deposit", "transfer_received"} THEN t.amount ELSE -t.amount

RECURSIVE Replay(_, _)
Replay(i, n) ==
    IF n = 0 THEN 0
    ELSE Replay(i, n - 1) + (IF ledger[n].userId = i THEN Signed(ledger[n]) ELSE 0)

\* C19: with no operation in flight and a ledger of known kinds and positive
\* amounts, every balance is the replay of the account's records from 0, and
\* every record's balance field is the replay up to that record.
C19_BalanceReplaysFromLedger ==
    (/\ Settled
     /\ \A k \in 1..Len(ledger) : ledger[k].type \in Kinds /\ ledger[k].amount > 0)
    => /\ \A i \in Ids : users[i].balance = Replay(i, Len(ledger))
       /\ \A k \in 1..Len(ledger) : ledger[k].balance = Replay(ledger[k].userId, k)

\* C20: when a handler that started a transaction has ended, it has called
\* exactly one of commitTransaction and abortTransaction, once, after
\* startTransaction, and then endSession once; a committed request has not
\* called abortTransaction.
C20_OneOfCommitOrAbortThenEnd ==
    \A r \in Reqs :
        (pc[r] = "done" /\ calls[r] # <<>>) =>
            \/ calls[r] = <<"startTransaction", "commitTransaction", "endSession">>
            \/ /\ calls[r] = <<"startTransaction", "abortTransaction", "endSession">>
               /\ res[r].status # 200

----------------------------------------------------------------------------
\* Properties of provisioning (SpecProvision)

IsSignup(r) == body[r].op = "signup"

\* C12: a sign-up whose email a stored account already has when line 48 looks
\* it up is answered 400 and stores nothing; no step of a sign-up changes an
\* account that exists; and no two stored accounts ever share an email.
C12_DuplicateEmailIsRefused ==
    /\ [](\A i \in DOMAIN users : \A j \in DOMAIN users :
            i # j => users[i].email # users[j].email)
    /\ [][\A r \in Reqs :
            (IsSignup(r) /\ Steps(r)) =>
                /\ \A i \in DOMAIN users : i \in DOMAIN users' /\ users'[i] = users[i]
                /\ (/\ pc[r] = "findExistingUser" /\ error'[r] = ""
                    /\ \E i \in DOMAIN users : users[i].email = body[r].email)
                    => /\ res'[r] = [status |-> 400, message |-> "Email already registered"]
                       /\ pc'[r] = "done"
                       /\ users' = users]_vars

\* Two sign-ups raced for one new email: one stored the account, the unique
\* index refused the other.
C12_Witness ==
    \E r \in Reqs, q \in Reqs :
        /\ IsSignup(r) /\ IsSignup(q) /\ r # q
        /\ body[r].email = body[q].email
        /\ body[r].email \notin {EmailOf[i] : i \in Ids}
        /\ res[r].status = 201
        /\ pc[q] = "done" /\ error[q] = "E11000 duplicate key" /\ res[q].status = 500
        /\ Cardinality(FindByEmail(body[r].email)) = 1

\* C13: no two accounts that have an account number have the same one.
C13_AccountNumbersAreUnique ==
    \A i \in DOMAIN users : \A j \in DOMAIN users :
        (i # j /\ users[i].accountNumber # "" /\ users[j].accountNumber # "")
            => users[i].accountNumber # users[j].accountNumber

====
